---- MODULE Spec2Model ----
(***************************************************************************)
(* Model of evac (src/src/lib.rs): EvacBuilder composes panic handlers     *)
(* into one closure and installs it in the process-wide panic hook slot.   *)
(*                                                                         *)
(* The closure passed to set_hook (lib.rs 77-93) captures ctx (an Arc),    *)
(* default_hook and handlers BY VALUE and its body moves default_hook out  *)
(* (`if let Some(hook) = default_hook`, line 82) and handlers out          *)
(* (`for hook in handlers`, line 87).  The first invocation therefore      *)
(* consumes both; a later invocation reads moved-from storage, which is    *)
(* modelled as a nondeterministic choice (the old bits, nothing, a fault). *)
(***************************************************************************)
EXTENDS Integers, Sequences, FiniteSets, TLC

\* ---- bounds of the model ----
MaxHandlers == 2
MaxHooks == 2
MaxEvents == 2
\* calls of the builder's methods plus fatal events in one run
MaxOps == 8
\* the same in a run of more than one thread
MaxOpsConc == 6

\* ---- inputs ----
HandlerNames == {"a", "b"}
CtxInputs == {<<>>, <<"c">>}
Results == {"Ok", "Err"}

\* The hook that ships with Rust: what the slot holds before any set_hook and
\* what take_hook leaves in the slot.
DefaultHook == 0

VARIABLES
    threads,   \* the threads of the process
    builder,   \* builder[t]: <<>> or <<EvacBuilder value>> owned by thread t; its
               \* field `added` is history: the with_handler calls in call order
    reg,       \* reg[t]: <<>> or <<locals of a register call between 62-74 and 77>>
    hooks,     \* hooks[h]: captured state of the h-th closure given to set_hook
               \* (ctx, default_hook, handlers), what has been moved out of it,
               \* and as history the builder's `added` and `preserve_default`
               \* and register's ctx argument `arg`
    slot,      \* the process-wide panic hook slot: DefaultHook or an index of hooks
    stack,     \* stack[t]: call stack of hook invocations of thread t (top = last)
    events,    \* number of fatal events raised so far
    trace,     \* history: hook entries/exits and handler calls, in order
    stderr,    \* the standard error stream: lines with their writer
    crashed,   \* a fault taken inside a hook invocation ended the process
    ops        \* builder method calls and fatal events so far (bounds the run)

vars == <<threads, builder, reg, hooks, slot, stack, events, trace, stderr, crashed, ops>>

\* ---- Option<T> as a sequence of length <= 1 ----
None == <<>>
Some(x) == <<x>>

\* ---- pure helpers ----
PanicMessage == "thread panicked"
DiagnosticHeader == "Error encountered in panic handler:"

\* Display text of the error a handler returns.
ErrText(name) == IF name = "a" THEN "boom a" ELSE "boom b"

\* A handler given &mut ctx appends its name to the context.
HandlerMutation(name, c) == Append(c, name)

\* mutant of CtxAfterCall: the handler worked on a copy
CtxAfterCallCopy(c, out, res) == c

\* mutant of CtxAfterCall: a failed handler's changes are rolled back
CtxAfterCallRollback(c, out, res) == IF res = "Err" THEN c ELSE out

\* The value left in the captured ctx once a handler that was handed
\* `ctx` (a &mut into the Arc) returned `res` having written `out`.
CtxAfterCall(c, out, res) == out

\* mutant of PcAfterCall: the result of the handler is dropped unread
PcAfterCallSilent(res) == "call"

\* Position reached after a handler returned: the Err arm prints (89-90),
\* then the for loop goes on either way.
PcAfterCall(res) == IF res = "Err" THEN "eprint1" ELSE "call"

\* mutant of CapturedHook: the hook in the slot is kept whatever the flag
CapturedHookAlways(preserve, s) == Some(s)

\* lines 68-71: what register keeps of the hook in the slot
CapturedHook(preserve, s) == IF preserve THEN Some(s) ELSE None

\* mutant of SlotAfterTake: the hook is read and left in the slot
SlotAfterTakeKeeps(preserve, s) == s

\* lines 68-71: the slot after the match; take_hook leaves the default hook
SlotAfterTake(preserve, s) == IF preserve THEN DefaultHook ELSE s

\* mutant of PushHandler: the new handler is put in front
PushHandlerFront(hs, h) == <<h>> \o hs

\* line 55: Vec::push
PushHandler(hs, h) == Append(hs, h)

\* mutant of RestAfterCall: an error breaks out of the loop
RestAfterCallBreak(it, res) == IF res = "Err" THEN <<>> ELSE Tail(it)

\* line 87: what is left to iterate once a handler returned `res`
RestAfterCall(it, res) == Tail(it)

\* mutant of NewFrame: the closure starts at the captured hook (82) and
\* never asserts access to the context
NewFrameDefaultFirst(h, ev) ==
    [hook |-> h, ev |-> ev, pc |-> IF h = DefaultHook THEN "std" ELSE "default",
     iter |-> <<>>, err |-> "", has_ctx |-> FALSE]

\* A call of a hook: the default hook, or the closure at its first statement
\* (79); has_ctx says that the closure holds the &mut to its context
NewFrame(h, ev) ==
    [hook |-> h, ev |-> ev, pc |-> IF h = DefaultHook THEN "std" ELSE "get_mut",
     iter |-> <<>>, err |-> "", has_ctx |-> FALSE]

\* mutant of PcInHandler: the loop goes on without waiting for the handler
PcInHandlerDetached == "call"

\* line 88: the closure is inside hook(info, ctx) until the handler returns
PcInHandler == "handler"

\* mutant of ArcNew: the hook starts from an empty context
ArcNewEmpty(c) == <<>>

\* line 74: Arc::new(ctx) holds the value register was given
ArcNew(c) == c

Entry(ev, h, kind, name, res, cin, cout) ==
    [ev |-> ev, hook |-> h, kind |-> kind, name |-> name, res |-> res,
     ctxIn |-> cin, ctxOut |-> cout]

Top(t) == stack[t][Len(stack[t])]
Pop(s) == SubSeq(s, 1, Len(s) - 1)
SetTop(t, f) == [stack EXCEPT ![t] = [@ EXCEPT ![Len(@)] = f]]

Idle(t) == stack[t] = <<>> /\ reg[t] = None

\* take_hook (69) and set_hook (77) take the write side of the lock that the
\* runtime holds on the read side while a hook runs: they wait for running hooks
HookLockFree == \A u \in threads : stack[u] = <<>>

\* one more call or event, within the bound of the run
OpsLimit == IF Cardinality(threads) > 1 THEN MaxOpsConc ELSE MaxOps
CountOp == ops < OpsLimit /\ ops' = ops + 1

\* Builders and pending registrations still able to produce a hook
Pending == Cardinality({t \in threads : builder[t] # None \/ reg[t] # None})

Init ==
    /\ threads = {1}
    /\ builder = [t \in threads |-> None]
    /\ reg = [t \in threads |-> None]
    /\ hooks = <<>>
    /\ slot = DefaultHook
    /\ stack = [t \in threads |-> <<>>]
    /\ events = 0
    /\ trace = <<>>
    /\ stderr = <<>>
    /\ crashed = FALSE
    /\ ops = 0

\* ---- EvacBuilder ----

\* lib.rs 37-42
New(t) ==
    /\ ~crashed /\ Idle(t) /\ builder[t] = None
    /\ Len(hooks) + Pending < MaxHooks
    /\ builder' = [builder EXCEPT ![t] = Some([handlers |-> <<>>, preserve_default |-> FALSE, added |-> <<>>])]
    /\ CountOp
    /\ UNCHANGED <<threads, reg, hooks, slot, stack, events, trace, stderr, crashed>>

\* mutant of PreserveDefaultPanic: the hook is taken when the flag is set
PreserveDefaultPanicTakes(t) ==
    /\ ~crashed /\ Idle(t) /\ builder[t] # None
    /\ builder' = [builder EXCEPT ![t] = Some([builder[t][1] EXCEPT !.preserve_default = TRUE])]
    /\ slot' = DefaultHook
    /\ CountOp
    /\ UNCHANGED <<threads, reg, hooks, stack, events, trace, stderr, crashed>>

\* lib.rs 45-49
PreserveDefaultPanic(t) ==
    /\ ~crashed /\ Idle(t) /\ builder[t] # None
    /\ builder' = [builder EXCEPT ![t] = Some([builder[t][1] EXCEPT !.preserve_default = TRUE])]
    /\ CountOp
    /\ UNCHANGED <<threads, reg, hooks, slot, stack, events, trace, stderr, crashed>>

\* lib.rs 54-58
WithHandler(t) ==
    /\ ~crashed /\ Idle(t) /\ builder[t] # None
    /\ Len(builder[t][1].handlers) < MaxHandlers
    /\ \E h \in HandlerNames :
         builder' = [builder EXCEPT ![t] =
                       Some([builder[t][1] EXCEPT !.handlers = PushHandler(@, h),
                                                 !.added = Append(@, h)])]
    /\ CountOp
    /\ UNCHANGED <<threads, reg, hooks, slot, stack, events, trace, stderr, crashed>>

\* lib.rs 61-74: register consumes the builder, takes the current hook when
\* preserve_default is set, wraps ctx in an Arc
RegisterBegin(t) ==
    /\ ~crashed /\ Idle(t) /\ builder[t] # None
    /\ builder[t][1].preserve_default => HookLockFree
    /\ \E c \in CtxInputs :
         reg' = [reg EXCEPT ![t] =
                   Some([handlers |-> builder[t][1].handlers,
                         default_hook |-> CapturedHook(builder[t][1].preserve_default, slot),
                         ctx |-> c,
                         added |-> builder[t][1].added,
                         preserve_default |-> builder[t][1].preserve_default])]
    /\ slot' = SlotAfterTake(builder[t][1].preserve_default, slot)
    /\ builder' = [builder EXCEPT ![t] = None]
    /\ CountOp
    /\ UNCHANGED <<threads, hooks, stack, events, trace, stderr, crashed>>

\* lib.rs 77-93: set_hook(Box::new(move |info| ...)) and return
RegisterSetHook(t) ==
    /\ ~crashed /\ stack[t] = <<>> /\ reg[t] # None
    /\ HookLockFree
    /\ hooks' = Append(hooks, [handlers |-> reg[t][1].handlers,
                               default_hook |-> reg[t][1].default_hook,
                               ctx |-> ArcNew(reg[t][1].ctx),
                               arg |-> reg[t][1].ctx,
                               strong |-> 1,
                               handlersMoved |-> FALSE,
                               defaultMoved |-> FALSE,
                               added |-> reg[t][1].added,
                               preserve_default |-> reg[t][1].preserve_default])
    /\ slot' = Len(hooks) + 1
    /\ reg' = [reg EXCEPT ![t] = None]
    /\ UNCHANGED <<threads, builder, stack, events, trace, stderr, crashed, ops>>

\* ---- a fatal event: the runtime invokes the hook in the slot ----
Panic(t) ==
    /\ ~crashed /\ Idle(t) /\ events < MaxEvents
    /\ events' = events + 1
    /\ stack' = [stack EXCEPT ![t] = <<NewFrame(slot, events + 1)>>]
    /\ trace' = Append(trace, Entry(events + 1, slot, "enter", "-", "-", <<>>, <<>>))
    /\ CountOp
    /\ UNCHANGED <<threads, builder, reg, hooks, slot, stderr, crashed>>

\* The hook that ships with Rust prints the panic message
StdHook(t) ==
    /\ ~crashed /\ stack[t] # <<>> /\ Top(t).pc = "std"
    /\ stderr' = Append(stderr, [ev |-> Top(t).ev, hook |-> DefaultHook, text |-> PanicMessage])
    /\ trace' = Append(trace, Entry(Top(t).ev, DefaultHook, "exit", "-", "-", <<>>, <<>>))
    /\ stack' = [stack EXCEPT ![t] = Pop(@)]
    /\ UNCHANGED <<threads, builder, reg, hooks, slot, events, crashed, ops>>

\* invocations of hook h that hold the &mut obtained at line 79
Borrowers(h) ==
    UNION {{<<t, i>> : i \in {j \in 1..Len(stack[t]) :
                                   stack[t][j].hook = h /\ stack[t][j].has_ctx}} :
           t \in threads}

\* mutant of StrongCount: every invocation that holds the context counts as
\* one more owner of the Arc
StrongCountPerBorrow(h) == hooks[h].strong + Cardinality(Borrowers(h))

\* The number of owners Arc::get_mut finds (line 79): the Arc made at line 74
\* is moved into the closure and never cloned
StrongCount(h) == hooks[h].strong

\* lib.rs 79: Arc::get_mut(&mut ctx).unwrap(): Some when there is one owner,
\* else unwrap panics inside the hook
GetMut(t) ==
    /\ ~crashed /\ stack[t] # <<>> /\ Top(t).pc = "get_mut"
    /\ IF StrongCount(Top(t).hook) = 1
       THEN /\ stack' = SetTop(t, [Top(t) EXCEPT !.pc = "default", !.has_ctx = TRUE])
            /\ UNCHANGED <<crashed, trace>>
       ELSE /\ crashed' = TRUE
            /\ trace' = Append(trace, Entry(Top(t).ev, Top(t).hook, "unwrap_none", "-", "-",
                                             <<>>, <<>>))
            /\ UNCHANGED stack
    /\ UNCHANGED <<threads, builder, reg, hooks, slot, events, stderr, ops>>

\* mutant of DefaultHookReads: a chain without handlers returns at once
DefaultHookReadsUnlessEmpty(h) ==
    IF hooks[h].handlers = <<>> THEN {None}
    ELSE IF hooks[h].defaultMoved THEN {None, hooks[h].default_hook}
    ELSE {hooks[h].default_hook}

\* Values a read of the captured default_hook can yield (line 82)
DefaultHookReads(h) ==
    IF hooks[h].defaultMoved THEN {None, hooks[h].default_hook}
    ELSE {hooks[h].default_hook}

\* lib.rs 82-84: if let Some(hook) = default_hook { hook(info); }
RunDefault(t) ==
    /\ ~crashed /\ stack[t] # <<>> /\ Top(t).pc = "default"
    /\ LET h == Top(t).hook IN
       \E d \in DefaultHookReads(h) :
         IF d = None
         THEN /\ stack' = SetTop(t, [Top(t) EXCEPT !.pc = "loop"])
              /\ UNCHANGED <<hooks, trace>>
         ELSE /\ hooks' = [hooks EXCEPT ![h].defaultMoved = TRUE]
              /\ stack' = [stack EXCEPT ![t] =
                             Append([@ EXCEPT ![Len(@)].pc = "loop"], NewFrame(d[1], Top(t).ev))]
              /\ trace' = Append(trace, Entry(Top(t).ev, d[1], "enter", "-", "-", <<>>, <<>>))
    /\ UNCHANGED <<threads, builder, reg, slot, events, stderr, crashed, ops>>

\* Values a read of the captured handlers can yield (line 87)
HandlersReads(h) ==
    IF hooks[h].handlersMoved THEN {<<>>, hooks[h].handlers}
    ELSE {hooks[h].handlers}

\* lib.rs 87: `for hook in handlers` moves the Vec into its iterator
LoopStart(t) ==
    /\ ~crashed /\ stack[t] # <<>> /\ Top(t).pc = "loop"
    /\ LET h == Top(t).hook IN
       \E hs \in HandlersReads(h) :
         /\ hooks' = [hooks EXCEPT ![h].handlersMoved = TRUE]
         /\ stack' = SetTop(t, [Top(t) EXCEPT !.pc = "call", !.iter = hs])
    /\ UNCHANGED <<threads, builder, reg, slot, events, trace, stderr, crashed, ops>>

\* A read of moved-from storage (82, 87) can also fault: the Box and the
\* Vec buffer were freed when the first invocation dropped them
MovedFault(t) ==
    /\ ~crashed /\ stack[t] # <<>>
    /\ LET h == Top(t).hook IN
       \/ Top(t).pc = "default" /\ hooks[h].defaultMoved
       \/ Top(t).pc = "loop" /\ hooks[h].handlersMoved /\ hooks[h].handlers # <<>>
    /\ crashed' = TRUE
    /\ UNCHANGED <<threads, builder, reg, hooks, slot, stack, events, trace, stderr, ops>>

\* lib.rs 87-88: the loop takes the next handler and calls hook(info, ctx)
CallHandler(t) ==
    /\ ~crashed /\ stack[t] # <<>> /\ Top(t).pc = "call" /\ Top(t).iter # <<>>
    /\ trace' = Append(trace, Entry(Top(t).ev, Top(t).hook, "start", Head(Top(t).iter), "-",
                                     <<>>, <<>>))
    /\ stack' = SetTop(t, [Top(t) EXCEPT !.pc = PcInHandler])
    /\ UNCHANGED <<threads, builder, reg, hooks, slot, events, stderr, crashed, ops>>

\* lib.rs 88: the handler works on the context through its &mut and returns
HandlerReturn(t) ==
    /\ ~crashed /\ stack[t] # <<>> /\ Top(t).pc = "handler"
    /\ LET h == Top(t).hook
           name == Head(Top(t).iter)
           cin == hooks[h].ctx
           out == HandlerMutation(name, cin)
       IN \E res \in Results :
            /\ hooks' = [hooks EXCEPT ![h].ctx = CtxAfterCall(cin, out, res)]
            /\ trace' = Append(trace, Entry(Top(t).ev, h, "call", name, res, cin, out))
            /\ stack' = SetTop(t, [Top(t) EXCEPT !.pc = PcAfterCall(res),
                                                 !.iter = RestAfterCall(@, res),
                                                 !.err = IF res = "Err" THEN ErrText(name) ELSE ""])
    /\ UNCHANGED <<threads, builder, reg, slot, events, stderr, crashed, ops>>

\* mutant of PriorHookFails: the failure is caught and the closure goes on
PriorHookFailsCaught(t) ==
    /\ ~crashed /\ Len(stack[t]) >= 2
    /\ trace' = Append(trace, Entry(Top(t).ev, Top(t).hook, "fail", "-", "-", <<>>, <<>>))
    /\ stack' = [stack EXCEPT ![t] = Pop(@)]
    /\ UNCHANGED <<threads, builder, reg, hooks, slot, events, stderr, crashed, ops>>

\* lib.rs 83: hook(info) is a plain call: a failure (panic) inside the
\* captured hook is not caught and leaves the closure through line 83; a panic
\* that leaves a panic hook ends the process
PriorHookFails(t) ==
    /\ ~crashed /\ Len(stack[t]) >= 2
    /\ trace' = Append(trace, Entry(Top(t).ev, Top(t).hook, "fail", "-", "-", <<>>, <<>>))
    /\ crashed' = TRUE
    /\ UNCHANGED <<threads, builder, reg, hooks, slot, stack, events, stderr, ops>>

\* lib.rs 89
Eprint1(t) ==
    /\ ~crashed /\ stack[t] # <<>> /\ Top(t).pc = "eprint1"
    /\ stderr' = Append(stderr, [ev |-> Top(t).ev, hook |-> Top(t).hook, text |-> DiagnosticHeader])
    /\ stack' = SetTop(t, [Top(t) EXCEPT !.pc = "eprint2"])
    /\ UNCHANGED <<threads, builder, reg, hooks, slot, events, trace, crashed, ops>>

\* lib.rs 90
Eprint2(t) ==
    /\ ~crashed /\ stack[t] # <<>> /\ Top(t).pc = "eprint2"
    /\ stderr' = Append(stderr, [ev |-> Top(t).ev, hook |-> Top(t).hook, text |-> Top(t).err])
    /\ stack' = SetTop(t, [Top(t) EXCEPT !.pc = "call", !.err = ""])
    /\ UNCHANGED <<threads, builder, reg, hooks, slot, events, trace, crashed, ops>>

\* lib.rs 92-93: the loop is exhausted, the closure returns
Return(t) ==
    /\ ~crashed /\ stack[t] # <<>> /\ Top(t).pc = "call" /\ Top(t).iter = <<>>
    /\ trace' = Append(trace, Entry(Top(t).ev, Top(t).hook, "exit", "-", "-", <<>>, <<>>))
    /\ stack' = [stack EXCEPT ![t] = Pop(@)]
    /\ UNCHANGED <<threads, builder, reg, hooks, slot, events, stderr, crashed, ops>>

Next ==
    \/ \E t \in threads : New(t)
    \/ \E t \in threads : PreserveDefaultPanic(t)
    \/ \E t \in threads : WithHandler(t)
    \/ \E t \in threads : RegisterBegin(t)
    \/ \E t \in threads : RegisterSetHook(t)
    \/ \E t \in threads : Panic(t)
    \/ \E t \in threads : StdHook(t)
    \/ \E t \in threads : GetMut(t)
    \/ \E t \in threads : RunDefault(t)
    \/ \E t \in threads : LoopStart(t)
    \/ \E t \in threads : MovedFault(t)
    \/ \E t \in threads : CallHandler(t)
    \/ \E t \in threads : HandlerReturn(t)
    \/ \E t \in threads : PriorHookFails(t)
    \/ \E t \in threads : Eprint1(t)
    \/ \E t \in threads : Eprint2(t)
    \/ \E t \in threads : Return(t)

Spec == Init /\ [][Next]_vars

\* ---- two threads ----
Threads == {1, 2}

InitConc ==
    /\ threads = Threads
    /\ builder = [t \in threads |-> None]
    /\ reg = [t \in threads |-> None]
    /\ hooks = <<>>
    /\ slot = DefaultHook
    /\ stack = [t \in threads |-> <<>>]
    /\ events = 0
    /\ trace = <<>>
    /\ stderr = <<>>
    /\ crashed = FALSE
    /\ ops = 0

SpecConc == InitConc /\ [][Next]_vars

\* ---- observations on the history ----

HookIds == 1..Len(hooks)
EventIds == 1..events

\* handler calls made by hook h during event ev, in order
Calls(ev, h) ==
    SelectSeq(trace, LAMBDA e : e.ev = ev /\ e.hook = h /\ e.kind = "call")

Names(cs) == [i \in 1..Len(cs) |-> cs[i].name]

Entered(ev, h) ==
    \E i \in 1..Len(trace) : trace[i].ev = ev /\ trace[i].hook = h /\ trace[i].kind = "enter"

Completed(ev, h) ==
    \E i \in 1..Len(trace) : trace[i].ev = ev /\ trace[i].hook = h /\ trace[i].kind = "exit"

\* the event in which hook h is invoked for the first time
FirstInvocation(ev, h) ==
    /\ Entered(ev, h)
    /\ \A e2 \in EventIds : Entered(e2, h) => ev <= e2

\* the hook the runtime invoked for event ev (the slot's content at that time)
TopHook(ev) ==
    LET i == CHOOSE j \in 1..Len(trace) :
                 /\ trace[j].ev = ev
                 /\ \A k \in 1..Len(trace) : trace[k].ev = ev => j <= k
    IN trace[i].hook

IsPrefix(p, q) == Len(p) <= Len(q) /\ SubSeq(q, 1, Len(p)) = p

\* C1: the first fatal event after register invokes the handlers in the order
\* in which with_handler added them, each exactly once (at every moment of the
\* event the calls made so far are a prefix of that order, and at the end they
\* are the whole list), whichever of them return an error.
HandlersRunInRegistrationOrder ==
    \A h \in HookIds : \A ev \in EventIds :
        FirstInvocation(ev, h) =>
            /\ IsPrefix(Names(Calls(ev, h)), hooks[h].added)
            /\ Completed(ev, h) => Names(Calls(ev, h)) = hooks[h].added

\* C1 witness: a finished first event of a two-handler chain a, b in which the
\* first handler failed and the second succeeded
OrderedRunWithFailure ==
    \E h \in HookIds : \E ev \in EventIds :
        /\ FirstInvocation(ev, h) /\ Completed(ev, h)
        /\ hooks[h].added = <<"a", "b">>
        /\ Len(Calls(ev, h)) = 2
        /\ Calls(ev, h)[1].res = "Err" /\ Calls(ev, h)[2].res = "Ok"

\* C2: in a finished invocation, a handler that returned an error is followed
\* by the call of the next registered handler, down to the last one; and a
\* register call that has begun can always install its hook.
ErrorNeverHaltsChain ==
    /\ \A h \in HookIds : \A ev \in EventIds :
         Completed(ev, h) =>
           LET cs == Calls(ev, h) IN
           \A i \in 1..Len(cs) :
             cs[i].res = "Err" =>
               /\ Len(cs) = Len(hooks[h].added)
               /\ \A j \in (i + 1)..Len(hooks[h].added) : cs[j].name = hooks[h].added[j]
    /\ \A t \in threads : (reg[t] # None /\ ~crashed) => ENABLED RegisterSetHook(t)

\* C2 witness: the first of two handlers failed, the second was still called
\* and the invocation finished
FailedThenNextCalled ==
    \E h \in HookIds : \E ev \in EventIds :
        /\ Completed(ev, h)
        /\ Len(Calls(ev, h)) = 2
        /\ Calls(ev, h)[1].res = "Err"

\* C3: every finished invocation of an installed hook, the first and any
\* later one, has called the complete handler list, so two events of one
\* hook call the same sequence.
EveryEventRunsCompleteChain ==
    \A h \in HookIds : \A ev \in EventIds :
        Completed(ev, h) => Names(Calls(ev, h)) = hooks[h].added

\* positions in the history of the entries of one kind of hook h in event ev
EntriesOf(ev, h, kind) ==
    {i \in 1..Len(trace) : trace[i].ev = ev /\ trace[i].hook = h /\ trace[i].kind = kind}

\* C4: with preservation, every finished invocation has run the captured hook
\* exactly once, and before each of its handler calls; without preservation an
\* event that the hook serves runs no other hook.
PriorHookOncePerEvent ==
    \A h \in HookIds : \A ev \in EventIds :
        Completed(ev, h) =>
            IF hooks[h].preserve_default
            THEN LET g == hooks[h].default_hook[1] IN
                 /\ Cardinality(EntriesOf(ev, g, "enter")) = 1
                 /\ Cardinality(EntriesOf(ev, g, "exit")) = 1
                 /\ \A i \in EntriesOf(ev, g, "exit") :
                      \A j \in EntriesOf(ev, h, "call") : i < j
            ELSE TopHook(ev) = h =>
                   \A i \in 1..Len(trace) : trace[i].ev = ev => trace[i].hook = h

\* C5: within one invocation each handler call after the first receives the
\* context exactly as the previous call left it.
NextHandlerSeesPreviousContext ==
    \A h \in HookIds : \A ev \in EventIds :
        LET cs == Calls(ev, h) IN
        \A i \in 1..(Len(cs) - 1) : cs[i + 1].ctxIn = cs[i].ctxOut

\* C5 witness: the second handler of an invocation received a context that
\* the first one had changed
SecondHandlerSawMutation ==
    \E h \in HookIds : \E ev \in EventIds :
        LET cs == Calls(ev, h) IN
        /\ Len(cs) = 2
        /\ cs[1].ctxOut # cs[1].ctxIn
        /\ cs[2].ctxIn = cs[1].ctxOut

\* the last handler call of hook h in the whole history, as a set of positions
LastCallOf(h) ==
    {i \in 1..Len(trace) :
        /\ trace[i].hook = h /\ trace[i].kind = "call"
        /\ \A j \in (i + 1)..Len(trace) : ~(trace[j].hook = h /\ trace[j].kind = "call")}

\* C6: the mutation of a handler that returned an error stays: the next
\* handler of the invocation receives it, and as long as no later handler
\* has run the captured context still holds it (also while and after the
\* diagnostic is printed).
FailedHandlerMutationKept ==
    /\ \A h \in HookIds : \A ev \in EventIds :
         LET cs == Calls(ev, h) IN
         \A i \in 1..Len(cs) :
           cs[i].res = "Err" =>
             /\ cs[i].ctxOut = HandlerMutation(cs[i].name, cs[i].ctxIn)
             /\ i < Len(cs) => cs[i + 1].ctxIn = cs[i].ctxOut
    /\ \A h \in HookIds : \A i \in LastCallOf(h) :
         trace[i].res = "Err" => hooks[h].ctx = trace[i].ctxOut

\* C6 witness: a handler failed after mutating, the diagnostic is being
\* printed, and a later handler of the same invocation is still to come
FailedMutationPending ==
    \E t \in threads :
        /\ stack[t] # <<>>
        /\ Top(t).pc = "eprint2"
        /\ Top(t).iter # <<>>
        /\ hooks[Top(t).hook].ctx # <<>>

\* ---- standard error ----

RECURSIVE Diagnostics(_)
\* the two-line diagnostics of the failed calls among cs, in order
Diagnostics(cs) ==
    IF cs = <<>> THEN <<>>
    ELSE (IF Head(cs).res = "Err"
          THEN <<DiagnosticHeader, ErrText(Head(cs).name)>>
          ELSE <<>>) \o Diagnostics(Tail(cs))

\* text written to standard error by hook h during event ev
Written(ev, h) ==
    LET ls == SelectSeq(stderr, LAMBDA l : l.ev = ev /\ l.hook = h)
    IN [i \in 1..Len(ls) |-> ls[i].text]

\* lines of the current diagnostic that the invocation (ev, h) has yet to write
Unwritten(ev, h) ==
    IF \E t \in threads : \E i \in 1..Len(stack[t]) :
         stack[t][i].ev = ev /\ stack[t][i].hook = h /\ stack[t][i].pc = "eprint1"
    THEN 2
    ELSE IF \E t \in threads : \E i \in 1..Len(stack[t]) :
              stack[t][i].ev = ev /\ stack[t][i].hook = h /\ stack[t][i].pc = "eprint2"
         THEN 1
         ELSE 0

\* C7: what a hook has written to standard error in an event is exactly the
\* diagnostics of its handlers that returned an error, in handler order; it
\* lags behind the calls only while the diagnostic of the handler that just
\* failed is being written, so that diagnostic is out before the next handler
\* is called; and an event served by a hook with no captured prior hook has
\* no other standard-error output.
StderrIsDiagnosticsOfFailures ==
    /\ \A h \in HookIds : \A ev \in EventIds :
         LET d == Diagnostics(Calls(ev, h)) IN
         Written(ev, h) = SubSeq(d, 1, Len(d) - Unwritten(ev, h))
    /\ \A t \in threads :
         (stack[t] # <<>> /\ Top(t).pc = "call") => Unwritten(Top(t).ev, Top(t).hook) = 0
    /\ \A ev \in EventIds :
         (TopHook(ev) # DefaultHook /\ ~hooks[TopHook(ev)].preserve_default) =>
            \A i \in 1..Len(stderr) : stderr[i].ev = ev => stderr[i].hook = TopHook(ev)

\* C7 witness: a finished event of handlers a, b, a failed and b succeeded,
\* and the standard error stream holds exactly the two lines of a's diagnostic
OneDiagnosticWritten ==
    \E h \in HookIds : \E ev \in EventIds :
        /\ Completed(ev, h)
        /\ Len(Calls(ev, h)) = 2
        /\ Calls(ev, h)[1].res = "Err" /\ Calls(ev, h)[2].res = "Ok"
        /\ Calls(ev, h)[1].name = "a"
        /\ [i \in 1..Len(stderr) |-> stderr[i].text] = <<DiagnosticHeader, "boom a">>

\* ---- the hook slot ----

\* C8: the slot holds the hook of the latest finished register; an event
\* served by a hook registered without preserve_default_panic calls only that
\* hook's handlers, on that hook's context, and enters no other hook (neither
\* an earlier chain nor the prior hook that chain had captured), whose
\* contexts stay as the last of their own handlers left them.
LastRegisterWins ==
    /\ (hooks # <<>> /\ \A t \in threads : reg[t] = None) => slot = Len(hooks)
    /\ \A ev \in EventIds :
         LET h == TopHook(ev) IN
         (h # DefaultHook /\ ~hooks[h].preserve_default) =>
            /\ \A i \in 1..Len(trace) : trace[i].ev = ev => trace[i].hook = h
            /\ FirstInvocation(ev, h) => IsPrefix(Names(Calls(ev, h)), hooks[h].added)
    /\ \A h \in HookIds :
         /\ LastCallOf(h) = {} => hooks[h].ctx \in CtxInputs
         /\ \A i \in LastCallOf(h) : hooks[h].ctx = trace[i].ctxOut

\* C8 witness: hook 1 was registered with preserve_default_panic and a
\* handler, hook 2 replaced it without preservation, and an event served by
\* hook 2 has finished after calling hook 2's handler
SecondChainServedEvent ==
    /\ Len(hooks) = 2
    /\ hooks[1].default_hook = Some(DefaultHook) /\ hooks[1].added # <<>>
    /\ ~hooks[2].preserve_default
    /\ \E ev \in EventIds :
         /\ TopHook(ev) = 2 /\ Completed(ev, 2)
         /\ Len(Calls(ev, 2)) = 1
         /\ hooks[1].ctx \in CtxInputs

\* C9: a step changes the slot only if it is a step of a register call (its
\* take_hook or its set_hook); the set_hook step leaves the new hook in the
\* slot; and a fatal event enters the hook that the slot holds at that moment.
OnlyRegisterChangesSlot ==
    [][ /\ slot' # slot =>
             \E t \in threads :
                \/ builder[t] # None /\ builder'[t] = None /\ reg'[t] # None
                \/ reg[t] # None /\ reg'[t] = None
        /\ \A t \in threads :
             (reg[t] # None /\ reg'[t] = None) =>
                /\ slot' = Len(hooks')
                /\ hooks'[slot'].handlers = reg[t][1].handlers
                /\ hooks'[slot'].ctx = reg[t][1].ctx
        /\ \A t \in threads :
             (stack[t] = <<>> /\ stack'[t] # <<>>) => stack'[t][1].hook = slot
      ]_vars

\* C9 witness: while hook 1 is installed a second builder has had
\* preserve_default_panic and with_handler applied, hook 1 is still in the
\* slot, and a fatal event is running hook 1
BuilderCallsLeftSlotAlone ==
    \E t \in threads :
        /\ slot = 1
        /\ builder[t] # None
        /\ builder[t][1].preserve_default /\ builder[t][1].handlers # <<>>
        /\ stack[t] # <<>> /\ stack[t][1].hook = 1

\* C10: no invocation ends in a fault of the hook's own (the process ends
\* inside a hook only when a captured prior hook failed), and every finished
\* invocation has made exactly as many handler calls as the chain has handlers.
EveryInvocationCompletesAfterAllCalls ==
    /\ crashed => \E i \in 1..Len(trace) : trace[i].kind = "fail"
    /\ \A h \in HookIds : \A ev \in EventIds :
         Completed(ev, h) => Len(Calls(ev, h)) = Len(hooks[h].added)

\* ---- access to the context ----

\* starts and returns of the handlers of hook h during event ev, in order
Steps(ev, h) ==
    SelectSeq(trace, LAMBDA e : e.ev = ev /\ e.hook = h /\ e.kind \in {"start", "call"})

\* all finished handler calls of hook h, over all events, in order
AllCalls(h) == SelectSeq(trace, LAMBDA e : e.hook = h /\ e.kind = "call")

\* the context hook h holds according to the history: what the last of its
\* handlers left, or register's argument
CtxHeld(h) ==
    IF AllCalls(h) = <<>> THEN hooks[h].arg ELSE AllCalls(h)[Len(AllCalls(h))].ctxOut

\* C11: within one invocation the handlers take turns: the starts and returns
\* of its handlers alternate, each return being that of the handler started
\* just before, so no handler starts before the previous one returned; and the
\* context changes in no other way than by the handlers of its own hook.
HandlersHoldContextInTurn ==
    /\ \A h \in HookIds : \A ev \in EventIds :
         LET st == Steps(ev, h) IN
         \A i \in 1..Len(st) :
           /\ st[i].kind = (IF i % 2 = 1 THEN "start" ELSE "call")
           /\ (i % 2 = 0) => st[i].name = st[i - 1].name
    /\ \A h \in HookIds : hooks[h].ctx = CtxHeld(h)

\* C11 witness: the second handler of an invocation is running after the
\* first one has returned
SecondHandlerRunning ==
    \E t \in threads :
        /\ stack[t] # <<>> /\ Top(t).pc = "handler"
        /\ Len(Steps(Top(t).ev, Top(t).hook)) = 3
        /\ hooks[Top(t).hook].ctx # hooks[Top(t).hook].arg

\* C12 as claimed: while a captured prior hook runs, the closure that called
\* it has not yet obtained its mutable access to the context.
PriorHookRunsBeforeGetMut ==
    \A t \in threads : \A i \in 1..(Len(stack[t]) - 1) : ~stack[t][i].has_ctx

\* C12 amended: while a captured prior hook runs, the closure that called it
\* has already obtained its mutable access (line 79 precedes 82-84) but has
\* started no handler, and its context is as it was (the prior hook is called
\* with the panic info alone).
PriorHookRunsAfterGetMutBeforeHandlers ==
    \A t \in threads : \A i \in 1..(Len(stack[t]) - 1) :
        LET f == stack[t][i] IN
        /\ f.has_ctx
        /\ Steps(f.ev, f.hook) = <<>>
        /\ hooks[f.hook].ctx = CtxHeld(f.hook)
        /\ stack[t][i + 1].hook # f.hook

\* C12 witness: the captured prior hook is running under a closure that has
\* handlers and holds its context
PriorHookRunningUnderClosure ==
    \E t \in threads :
        /\ Len(stack[t]) = 2
        /\ stack[t][1].has_ctx
        /\ hooks[stack[t][1].hook].added # <<>>

EventStart(ev) ==
    CHOOSE j \in 1..Len(trace) :
        /\ trace[j].ev = ev
        /\ \A k \in 1..Len(trace) : trace[k].ev = ev => j <= k

\* event e2 began while the invocation of hook h for event e1 was running
Overlaps(e1, h, e2) ==
    /\ e1 # e2
    /\ \E i \in EntriesOf(e1, h, "enter") :
         /\ i < EventStart(e2)
         /\ \A j \in EntriesOf(e1, h, "exit") : EventStart(e2) < j

\* C14: an invocation that overlaps another event, or begins during one,
\* has called, when it finishes, exactly the handlers of its chain in order.
OverlappingEventsRunWholeChain ==
    \A h \in HookIds : \A e1 \in EventIds : \A e2 \in EventIds :
        (Completed(e1, h) /\ (Overlaps(e1, h, e2) \/ Overlaps(e2, TopHook(e2), e1))) =>
            Names(Calls(e1, h)) = hooks[h].added

\* ---- a chain without handlers ----

RECURSIVE ChainOf(_)
\* hook h and the hooks it reaches through captured prior hooks
ChainOf(h) ==
    IF h = DefaultHook \/ hooks[h].default_hook = None THEN {h}
    ELSE {h} \cup ChainOf(hooks[h].default_hook[1])

\* C15: a hook registered from a builder without handlers is installed and
\* calls no handler, leaves its context as register got it and writes
\* nothing; an event it serves without preservation consists of its entry and
\* exit alone and leaves standard error untouched; with preservation the
\* event enters nothing outside the captured prior hook, and the hook's first
\* finished invocation has run that prior hook once.
EmptyChainOnlyRunsPriorHook ==
    \A h \in HookIds :
        hooks[h].added = <<>> =>
            /\ hooks[h].ctx = hooks[h].arg
            /\ \A i \in 1..Len(trace) :
                 trace[i].hook = h => trace[i].kind \notin {"start", "call", "unwrap_none"}
            /\ \A i \in 1..Len(stderr) : stderr[i].hook # h
            /\ \A ev \in EventIds :
                 TopHook(ev) = h =>
                   IF hooks[h].preserve_default
                   THEN /\ \A i \in 1..Len(trace) :
                             trace[i].ev = ev => trace[i].hook \in ChainOf(h)
                        /\ (FirstInvocation(ev, h) /\ Completed(ev, h)) =>
                             Cardinality(EntriesOf(ev, hooks[h].default_hook[1], "exit")) = 1
                   ELSE /\ \A i \in 1..Len(trace) : trace[i].ev = ev => trace[i].hook = h
                        /\ \A i \in 1..Len(stderr) : stderr[i].ev # ev

\* C15 witness: a hook without handlers and without preservation has served
\* an event, then a second hook without handlers but with preservation has
\* served one, running the first hook as its prior hook
EmptyChainsServedEvents ==
    /\ Len(hooks) = 2
    /\ hooks[1].added = <<>> /\ ~hooks[1].preserve_default
    /\ hooks[2].added = <<>> /\ hooks[2].default_hook = Some(1)
    /\ \E e1, e2 \in EventIds :
         /\ TopHook(e1) = 1 /\ Completed(e1, 1)
         /\ TopHook(e2) = 2 /\ Completed(e2, 2) /\ Completed(e2, 1)

\* ---- a failing prior hook ----

\* C16: once a captured prior hook has failed, the process is over and the
\* event has no further step: the installed hook has called no handler in
\* that event, has written no diagnostic, and its context is as it was.
PriorHookFailurePropagates ==
    \A i \in 1..Len(trace) :
        trace[i].kind = "fail" =>
            LET ev == trace[i].ev
                h == TopHook(ev)
            IN /\ crashed
               /\ \A j \in (i + 1)..Len(trace) : trace[j].ev # ev
               /\ Steps(ev, h) = <<>>
               /\ Written(ev, h) = <<>>
               /\ hooks[h].ctx = CtxHeld(h)
               /\ ~Completed(ev, h)

\* C16 witness: the prior hook of an installed chain with handlers has failed
PriorHookFailedUnderChain ==
    \E i \in 1..Len(trace) :
        /\ trace[i].kind = "fail"
        /\ hooks[TopHook(trace[i].ev)].added # <<>>

\* ---- the exclusive-access assertion ----

\* C17: Arc::get_mut(..).unwrap() never fails: every Arc has one owner in
\* every state, no invocation has ended in the unwrap, and every invocation
\* past line 79 holds the context, whatever other invocation holds it too.
GetMutNeverFails ==
    /\ \A h \in HookIds : StrongCount(h) = 1
    /\ \A i \in 1..Len(trace) : trace[i].kind # "unwrap_none"
    /\ \A t \in threads : \A i \in 1..Len(stack[t]) :
         (stack[t][i].hook # DefaultHook /\ stack[t][i].pc # "get_mut") => stack[t][i].has_ctx

\* C17 witness: two invocations of one hook on two threads both passed the
\* assertion and hold the context at once, the second one in a repeated event
TwoInvocationsHoldContext ==
    \E t, u \in threads :
        /\ t # u
        /\ stack[t] # <<>> /\ stack[u] # <<>>
        /\ stack[t][1].hook = stack[u][1].hook
        /\ stack[t][1].hook # DefaultHook
        /\ stack[t][1].has_ctx /\ stack[u][1].has_ctx

\* ---- a chain registered over a chain ----

\* the context the i-th entry of the history, a call of hook h, must have
\* found: what the previous call of h left, or register's argument
CtxBefore(i, h) ==
    LET prev == {j \in 1..(i - 1) : trace[j].hook = h /\ trace[j].kind = "call"}
    IN IF prev = {} THEN hooks[h].arg
       ELSE trace[CHOOSE j \in prev : \A k \in prev : k <= j].ctxOut

\* C18: a hook registered with preservation over the hook of an earlier
\* register runs, in every event it finishes, the earlier chain whole and then
\* all of its own handlers, each chain on its own context.
PreservedChainRunsWholeOnEveryEvent ==
    \A h \in HookIds :
        (hooks[h].preserve_default /\ hooks[h].default_hook # Some(DefaultHook)) =>
            LET g == hooks[h].default_hook[1] IN
            /\ \A ev \in EventIds :
                 (TopHook(ev) = h /\ Completed(ev, h)) =>
                    /\ Completed(ev, g)
                    /\ Names(Calls(ev, g)) = hooks[g].added
                    /\ Names(Calls(ev, h)) = hooks[h].added
                    /\ \A i \in EntriesOf(ev, g, "exit") : \A j \in EntriesOf(ev, h, "start") : i < j
            /\ \A i \in 1..Len(trace) :
                 (trace[i].kind = "call" /\ trace[i].hook \in {g, h}) =>
                    /\ trace[i].ctxIn = CtxBefore(i, trace[i].hook)
                    /\ trace[i].ctxOut = HandlerMutation(trace[i].name, trace[i].ctxIn)

\* ---- register against other threads ----

====
